---- MODULE Spec2Model ----
(***************************************************************************)
(* Model of OrbitalAnimation.cpp: the satellite collection, the per-frame  *)
(* physics pass (reverse traversal with in-loop erase, collision test,     *)
(* force model, semi-explicit Euler step, trail buffer, energy counter),   *)
(* the click spawn handler, the timestep clamp and predictOrbit.           *)
(*                                                                         *)
(* Numbers.  The program computes in float.  The model computes in fixed   *)
(* point, with every intermediate kept inside 32 bits:                     *)
(*   positions, velocities, accelerations : 1/Micro of a world unit        *)
(*   lengths (the results of length())    : 1/LenScale of a world unit     *)
(*   unit vectors (normalize())           : 1/DirScale                     *)
(*   time                                 : 1/TimeScale of a second        *)
(* A product or quotient is rounded to the nearest representable value.    *)
(***************************************************************************)
EXTENDS Integers, Sequences, FiniteSets

\* ---------------------------------------------------------------- resolution
Micro == 1000000
LenScale == 10
DirScale == 10000
SpeedScale == 1000
TimeScale == 6000

\* ---------------------------------------------------------------- constants
\* const float G = 0.2f, as 1/G_INV
G_INV == 5
EARTH_MASS == 5000
\* const float J2_STRENGTH = 0.00005f, as 1/J2_INV
J2_INV == 20000
EARTH_RADIUS == 90
\* const float MIN_DIST = 1e-3f, as 1/MIN_DIST_INV
MIN_DIST_INV == 1000
MAX_TRAIL == 3000
ORBIT_SPEED_SCALE == 4
\* r > EARTH_RADIUS + 5.f
SpawnMargin == 5
\* if (removeCount < 16) removeCount = 16
TrailBlock == 16
\* energyCounter % 200
SampleEvery == 200

EARTH_CENTER == <<600 * Micro, 450 * Micro>>
\* const float MAX_DT = 0.05f
MAX_DT == TimeScale \div 20
\* dt = 1.f / 60.f
FALLBACK_DT == TimeScale \div 60
\* predictOrbit(..., 0.02f, 400)
PREDICT_DT == TimeScale \div 50

\* G * EARTH_MASS, world units^3 / s^2
GM == EARTH_MASS \div G_INV
\* MIN_DIST as a length, and as a squared length (both below the resolution)
MinDistLen == LenScale \div MIN_DIST_INV
MinDistSq == (LenScale * LenScale) \div MIN_DIST_INV
\* EARTH_RADIUS and EARTH_RADIUS + 5 as lengths
RadiusLen == EARTH_RADIUS * LenScale
SpawnLen == (EARTH_RADIUS + SpawnMargin) * LenScale

\* ---------------------------------------------------------------- arithmetic
\* a / b rounded to the nearest integer (b > 0)
RDiv(a, b) == (a + b \div 2) \div b

\* a * b / c rounded to the nearest integer (c > 0), without forming a * b
FMul(a, b, c) == (a \div c) * b + ((a % c) * b + c \div 2) \div c

RECURSIVE LongDivLoop(_, _, _, _)
LongDivLoop(q, r, d, k) ==
    IF k = 0 THEN q
    ELSE LongDivLoop(q * 10 + (r * 10) \div d, (r * 10) % d, d, k - 1)

\* floor(n * 10^k / d), without forming n * 10^k
LongDiv(n, d, k) == LongDivLoop(n \div d, n % d, d, k)

RECURSIVE NewtonSqrt(_, _)
NewtonSqrt(n, x) ==
    LET y == (x + n \div x) \div 2
    IN  IF y >= x THEN x ELSE NewtonSqrt(n, y)

\* std::sqrt, rounded to the nearest integer
ISqrt(n) ==
    IF n < 2 THEN n
    ELSE LET s == NewtonSqrt(n, IF n < 46340 THEN n ELSE 46340)
         IN  IF n - s * s > s THEN s + 1 ELSE s

Max(a, b) == IF a >= b THEN a ELSE b
Min(a, b) == IF a <= b THEN a ELSE b

VSub(a, b) == <<a[1] - b[1], a[2] - b[2]>>
VNeg(a) == <<0 - a[1], 0 - a[2]>>

\* ---------------------------------------------------------------- vector math
\* length(v): sqrt(v.x * v.x + v.y * v.y), a length in 1/LenScale
length(v) ==
    LET x == RDiv(v[1], Micro \div LenScale)
        y == RDiv(v[2], Micro \div LenScale)
    IN  ISqrt(x * x + y * y)

\* normalize(v): the zero vector when length(v) <= MIN_DIST, else v / m
normalize(v) ==
    LET m == length(v)
    IN  IF m <= MinDistLen THEN <<0, 0>>
        ELSE <<RDiv(v[1], m * (Micro \div (LenScale * DirScale))),
               RDiv(v[2], m * (Micro \div (LenScale * DirScale)))>>

\* { -dir.y, dir.x }
Tangent(dir) == <<0 - dir[2], dir[1]>>

\* ---------------------------------------------------------------- force model
\* The test against MIN_DIST in place of EARTH_RADIUS.
CollidedAtMinDist(dist) == dist <= MinDistLen

\* dist <= EARTH_RADIUS
Collided(dist) == dist <= RadiusLen

\* dir * (G * EARTH_MASS / (dist * dist + MIN_DIST)) + tangent * J2_STRENGTH * dist
Acceleration(toEarth, dist) ==
    LET dir == normalize(toEarth)
        accel == LongDiv(GM * Micro, dist * dist + MinDistSq, 2)
        tangent == Tangent(dir)
        jk == Micro \div (DirScale * LenScale)
    IN  <<FMul(accel, dir[1], DirScale) + RDiv(tangent[1] * dist * jk, J2_INV),
          FMul(accel, dir[2], DirScale) + RDiv(tangent[2] * dist * jk, J2_INV)>>

\* v += a * dt; p += v * dt  (velocity first)
Integrate(p, v, a, d) ==
    LET nv == <<v[1] + FMul(a[1], d, TimeScale), v[2] + FMul(a[2], d, TimeScale)>>
    IN  [pos |-> <<p[1] + FMul(nv[1], d, TimeScale), p[2] + FMul(nv[2], d, TimeScale)>>,
         vel |-> nv]

\* One body's update in the physics loop: collision test on the current
\* position against EARTH_CENTER, then force and integration.
BodyUpdate(pos, vel, d) ==
    LET toEarth == VSub(EARTH_CENTER, pos)
        dist == length(toEarth)
    IN  IF Collided(dist)
        THEN [collided |-> TRUE, pos |-> pos, vel |-> vel]
        ELSE LET n == Integrate(pos, vel, Acceleration(toEarth, dist), d)
             IN  [collided |-> FALSE, pos |-> n.pos, vel |-> n.vel]

\* One iteration of predictOrbit's loop: toEarth = -p, the same test, force
\* and integration.
PredictUpdate(p, v, d) ==
    LET toEarth == VNeg(p)
        dist == length(toEarth)
    IN  IF Collided(dist)
        THEN [collided |-> TRUE, pos |-> p, vel |-> v]
        ELSE LET n == Integrate(p, v, Acceleration(toEarth, dist), d)
             IN  [collided |-> FALSE, pos |-> n.pos, vel |-> n.vel]

\* std::sqrt(G * EARTH_MASS / std::max(r, MIN_DIST)) * ORBIT_SPEED_SCALE,
\* r a length; the result in 1/SpeedScale of a world unit per second
OrbitSpeed(r) ==
    ISqrt(LongDiv(GM * Micro, Max(r, MinDistLen), 1)) * ORBIT_SPEED_SCALE

\* ---------------------------------------------------------------- bounds
MaxTicks == 2
MaxSats == 2

\* ---------------------------------------------------------------- state
VARIABLES
    sats,           \* std::vector<Satellite>: records [id, pos, vel, trail, alive]
    energyCounter,  \* int energyCounter
    dt,             \* the frame's clamped timestep (0 before the first frame)
    rawDt,          \* history: clock.restart() of the last frame
    ticks,          \* history: frames run
    nextId,         \* history: the identity given to the next Satellite
    before,         \* history: sats as the last handler found it
    beforeCounter,  \* history: energyCounter as the last frame found it
    log,            \* history: what the last frame's loop did, <<id, step>> in order
    sampled,        \* history: the bodies whose energy the last frame printed
    last,           \* history: "init", "tick" or "click", the last handler run
    clickPos,       \* history: worldPos of the last click
    gone,           \* history: the identities erased from sats so far
    pr,             \* predictOrbit's locals while it runs
    orb,            \* one body's position and velocity under repeated BodyUpdate
    tb              \* one trail buffer under repeated TrailAppend

progVars == <<sats, energyCounter, dt, rawDt, ticks, nextId, before,
              beforeCounter, log, sampled, last, clickPos, gone>>
vars == <<sats, energyCounter, dt, rawDt, ticks, nextId, before,
          beforeCounter, log, sampled, last, clickPos, gone, pr, orb, tb>>

\* ---------------------------------------------------------------- trail
\* The eviction taking the newest block in place of the oldest.
TrailAppendDropNewest(trail, point) ==
    LET t == Append(trail, point)
    IN  IF Len(t) > MAX_TRAIL
        THEN LET over == Len(t) - MAX_TRAIL
                 removeCount == IF over < TrailBlock THEN TrailBlock ELSE over
             IN  SubSeq(t, 1, Len(t) - removeCount)
        ELSE t

\* trail.emplace_back(pos); past MAX_TRAIL, erase the oldest block of
\* max(size - MAX_TRAIL, 16) points
TrailAppend(trail, point) ==
    LET t == Append(trail, point)
    IN  IF Len(t) > MAX_TRAIL
        THEN LET over == Len(t) - MAX_TRAIL
                 removeCount == IF over < TrailBlock THEN TrailBlock ELSE over
             IN  SubSeq(t, removeCount + 1, Len(t))
        ELSE t

\* ---------------------------------------------------------------- timestep
\* The clamp without its std::min.
ClampDtNoMax(raw) == IF raw <= 0 THEN FALLBACK_DT ELSE raw

\* if (dt <= 0.f) dt = 1.f / 60.f; dt = std::min(dt, MAX_DT)
ClampDt(raw) ==
    LET d == IF raw <= 0 THEN FALLBACK_DT ELSE raw
    IN  Min(d, MAX_DT)

\* ---------------------------------------------------------------- physics pass
\* sats.erase(sats.begin()): the index left out.
EraseFront(s, i) == Tail(s)

\* sats.erase(sats.begin() + i), i counted from 1
Erase(s, i) == SubSeq(s, 1, i - 1) \o SubSeq(s, i + 1, Len(s))

\* The cadence tested before the increment.
SampleDueBeforeIncrement(ec) == (ec - 1) % SampleEvery = 0

\* energyCounter % 200 == 0, after the increment
SampleDue(ec) == ec % SampleEvery = 0

\* The loop body for index i.  st carries the collection, the counter and the
\* history of the pass.
LoopBody(i, st, d) ==
    LET sat == st.sats[i]
    IN  IF ~sat.alive
        THEN [st EXCEPT !.sats = Erase(st.sats, i),
                        !.log = Append(@, <<sat.id, "erase">>)]
        ELSE LET u == BodyUpdate(sat.pos, sat.vel, d)
             IN  IF u.collided
                 THEN [st EXCEPT !.sats[i].alive = FALSE,
                                 !.log = @ \o <<(<<sat.id, "test">>), (<<sat.id, "flag">>)>>]
                 ELSE [st EXCEPT
                         !.sats[i].pos = u.pos,
                         !.sats[i].vel = u.vel,
                         !.sats[i].trail = TrailAppend(@, u.pos),
                         !.ec = @ + 1,
                         !.sampled = IF SampleDue(st.ec + 1) THEN Append(@, sat.id) ELSE @,
                         !.log = @ \o <<(<<sat.id, "test">>), (<<sat.id, "integrate">>),
                                        (<<sat.id, "trail">>)>>]

RECURSIVE ForwardLoop(_, _, _)
ForwardLoop(i, st, d) ==
    IF i > Len(st.sats) THEN st ELSE ForwardLoop(i + 1, LoopBody(i, st, d), d)

\* A traversal from the front with the same in-loop erase.
ForwardPass(s, d, ec) ==
    ForwardLoop(1, [sats |-> s, ec |-> ec, log |-> <<>>, sampled |-> <<>>], d)

RECURSIVE PhysicsLoop(_, _, _)
PhysicsLoop(i, st, d) ==
    IF i < 1 THEN st ELSE PhysicsLoop(i - 1, LoopBody(i, st, d), d)

\* for (int i = size - 1; i >= 0; --i) { ... }
PhysicsPass(s, d, ec) ==
    PhysicsLoop(Len(s), [sats |-> s, ec |-> ec, log |-> <<>>, sampled |-> <<>>], d)

\* One iteration of the main loop with clock.restart() = raw: the clamp and
\* the physics pass.  The events polled in between are steps of their own
\* (MouseButtonPressed; zoom, pan and close touch none of this state), and so
\* is predictOrbit (PredictIterate), whose result is drawn and dropped.  The
\* value energy() prints is left out; sampled records for whom it is printed.
Frame(raw) ==
    LET d == ClampDt(raw)
        r == PhysicsPass(sats, d, energyCounter)
    IN  /\ sats' = r.sats
        /\ energyCounter' = r.ec
        /\ dt' = d
        /\ rawDt' = raw
        /\ ticks' = ticks + 1
        /\ before' = sats
        /\ beforeCounter' = energyCounter
        /\ log' = r.log
        /\ sampled' = r.sampled
        /\ last' = "tick"
        /\ gone' = gone \cup {r.log[k][1] : k \in {m \in 1..Len(r.log) : r.log[m][2] = "erase"}}
        /\ UNCHANGED <<nextId, clickPos, pr, orb, tb>>

\* ---------------------------------------------------------------- spawn
\* tangent * v, for a body at worldPos, r = length(worldPos - EARTH_CENTER)
SpawnVelocity(worldPos, r) ==
    LET dir == normalize(VSub(worldPos, EARTH_CENTER))
        tangent == Tangent(dir)
        v == OrbitSpeed(r)
        k == (DirScale * SpeedScale) \div Micro
    IN  <<RDiv(tangent[1] * v, k), RDiv(tangent[2] * v, k)>>

\* r >= EARTH_RADIUS + 5.f
SpawnAllowedAtThreshold(r) == r >= SpawnLen

\* r > EARTH_RADIUS + 5.f
SpawnAllowed(r) == r > SpawnLen

\* MouseButtonPressed, left button, the cursor at worldPos
MouseButtonPressed(worldPos) ==
    LET r == length(VSub(worldPos, EARTH_CENTER))
    IN  /\ sats' = IF SpawnAllowed(r)
                   THEN Append(sats, [id |-> nextId, pos |-> worldPos,
                                      vel |-> SpawnVelocity(worldPos, r),
                                      trail |-> <<>>, alive |-> TRUE])
                   ELSE sats
        /\ nextId' = IF SpawnAllowed(r) THEN nextId + 1 ELSE nextId
        /\ before' = sats
        /\ clickPos' = worldPos
        /\ last' = "click"
        /\ UNCHANGED <<energyCounter, dt, rawDt, ticks, beforeCounter, log,
                       sampled, gone, pr, orb, tb>>

\* ---------------------------------------------------------------- start
\* s.shape.setPosition({350, 0}); s.velocity = {0, sqrt(G * EARTH_MASS / 350.f) * scale}
StarterPos == <<350 * Micro, 0>>
StarterVel == <<0, OrbitSpeed(350 * LenScale) * (Micro \div SpeedScale)>>
Starter == [id |-> 1, pos |-> StarterPos, vel |-> StarterVel, trail |-> <<>>,
            alive |-> TRUE]

PrIdle == [pc |-> "idle", p |-> <<0, 0>>, v |-> <<0, 0>>, dt |-> 0, steps |-> 0,
           i |-> 0, ghost |-> <<>>, fromP |-> <<0, 0>>, fromV |-> <<0, 0>>,
           hit |-> FALSE, ran |-> FALSE]
OrbIdle == [pos |-> <<0, 0>>, vel |-> <<0, 0>>, alive |-> FALSE, n |-> 0]
TbIdle == [count |-> 0, pushed |-> 0, trail |-> <<>>]

InitProgram ==
    /\ sats = <<Starter>>
    /\ energyCounter = 0
    /\ dt = 0
    /\ rawDt = 0
    /\ ticks = 0
    /\ nextId = 2
    /\ before = <<>>
    /\ beforeCounter = 0
    /\ log = <<>>
    /\ sampled = <<>>
    /\ last = "init"
    /\ clickPos = <<0, 0>>
    /\ gone = {}

Init == InitProgram /\ pr = PrIdle /\ orb = OrbIdle /\ tb = TbIdle

\* ---------------------------------------------------------------- the program
\* clock.restart(): negative, zero, below 1e-3 s, 1/60 s, MAX_DT, a stall
RawDts == {0 - FALLBACK_DT, 0, 1, FALLBACK_DT, MAX_DT, 4 * MAX_DT}

\* Cursor positions: the centre, on the spawn threshold, just past it, far out
ClickPositions ==
    { EARTH_CENTER,
      <<(600 + EARTH_RADIUS + SpawnMargin) * Micro, 450 * Micro>>,
      <<(600 + EARTH_RADIUS + SpawnMargin) * Micro + Micro \div LenScale, 450 * Micro>>,
      <<600 * Micro, 150 * Micro>> }

Tick == \E raw \in RawDts : ticks < MaxTicks /\ Frame(raw)

Click == \E w \in ClickPositions : Len(sats) < MaxSats /\ MouseButtonPressed(w)

Next == Tick \/ Click

Spec == Init /\ [][Next]_vars

\* ---------------------------------------------------------------- energy run
\* The program from its start at a steady 60 frames a second, with clicks far
\* from the Earth during the first frames.
MaxEnergyTicks == 102
MaxEnergySats == 2
MaxClickTick == 2

TickEnergy == ticks < MaxEnergyTicks /\ Frame(FALLBACK_DT)

ClickEnergy ==
    /\ ticks < MaxClickTick
    /\ Len(sats) < MaxEnergySats
    /\ MouseButtonPressed(<<600 * Micro, 150 * Micro>>)

NextEnergy == TickEnergy \/ ClickEnergy

SpecEnergy == Init /\ [][NextEnergy]_vars

\* ---------------------------------------------------------------- the pass on any collection
\* The physics pass and the spawn handler on collections of live bodies with
\* empty trails outside the spawn threshold, whatever their velocities.  (The
\* click handler itself only gives a body the tangential velocity of
\* SpawnVelocity; the Satellite type admits any.)
MaxEngineTicks == 4
MaxEngineBodies == 3

\* 96 units right of the centre, falling at 60 units/s
Diver == [pos |-> <<(600 + 96) * Micro, 450 * Micro>>, vel |-> <<0 - 60 * Micro, 0>>]
\* 100 units below the centre, falling at 200 units/s
Plunger == [pos |-> <<600 * Micro, (450 + 100) * Micro>>, vel |-> <<0, 0 - 200 * Micro>>]
EngineBodies == {Diver, Plunger}

EngineCollections ==
    UNION { [1..n -> EngineBodies] : n \in 1..MaxEngineBodies }

AsSats(c) ==
    [i \in 1..Len(c) |-> [id |-> i, pos |-> c[i].pos, vel |-> c[i].vel,
                          trail |-> <<>>, alive |-> TRUE]]

InitEngine ==
    /\ \E c \in EngineCollections : sats = AsSats(c) /\ nextId = Len(c) + 1
    /\ energyCounter = 0
    /\ dt = 0
    /\ rawDt = 0
    /\ ticks = 0
    /\ before = <<>>
    /\ beforeCounter = 0
    /\ log = <<>>
    /\ sampled = <<>>
    /\ last = "init"
    /\ clickPos = <<0, 0>>
    /\ gone = {}
    /\ pr = PrIdle /\ orb = OrbIdle /\ tb = TbIdle

TickEngine == \E raw \in {FALLBACK_DT, MAX_DT} : ticks < MaxEngineTicks /\ Frame(raw)

ClickEngine ==
    /\ Len(sats) < MaxEngineBodies
    /\ MouseButtonPressed(<<600 * Micro, 150 * Micro>>)

NextEngine == TickEngine \/ ClickEngine

SpecEngine == InitEngine /\ [][NextEngine]_vars

\* ---------------------------------------------------------------- predictOrbit
MaxPredictSteps == 6

\* sf::Vector2f p = pos; sf::Vector2f v = vel; ghost empty; i = 0
PredictStart(pos, vel, d, steps) ==
    [pc |-> "loop", p |-> pos, v |-> vel, dt |-> d, steps |-> steps, i |-> 0,
     ghost |-> <<>>, fromP |-> pos, fromV |-> vel, hit |-> FALSE, ran |-> FALSE]

\* One pass through for (int i = 0; i < steps; ++i): leave at i = steps, break
\* on a collision, else integrate and emplace_back(p).  fromP, fromV, hit and
\* ran record the iteration for the properties.
PredictIterate ==
    /\ pr.pc = "loop"
    /\ pr' = IF pr.i >= pr.steps
             THEN [pr EXCEPT !.pc = "done"]
             ELSE LET u == PredictUpdate(pr.p, pr.v, pr.dt)
                  IN  IF u.collided
                      THEN [pr EXCEPT !.pc = "done", !.hit = TRUE, !.ran = TRUE,
                                      !.fromP = pr.p, !.fromV = pr.v]
                      ELSE [pr EXCEPT !.p = u.pos, !.v = u.vel,
                                      !.ghost = Append(@, u.pos), !.i = @ + 1,
                                      !.hit = FALSE, !.ran = TRUE,
                                      !.fromP = pr.p, !.fromV = pr.v]
    /\ UNCHANGED <<progVars, orb, tb>>

\* Start positions: the starter's, 95 units below the Earth's centre, 50 units
\* below it (inside the Earth), 95 units from the world origin
PredictPositions ==
    { StarterPos,
      <<600 * Micro, (450 + 95) * Micro>>,
      <<600 * Micro, (450 + 50) * Micro>>,
      <<0, 95 * Micro>> }

PredictVelocities ==
    { StarterVel, <<0, 0 - 300 * Micro>>, <<0, 0 - 100 * Micro>>, <<0, 0>> }

PredictDts == {PREDICT_DT, FALLBACK_DT}

InitPredict ==
    /\ InitProgram
    /\ \E pos \in PredictPositions, vel \in PredictVelocities, d \in PredictDts,
          steps \in {0, MaxPredictSteps} :
            pr = PredictStart(pos, vel, d, steps)
    /\ orb = OrbIdle /\ tb = TbIdle

SpecPredict == InitPredict /\ [][PredictIterate]_vars

\* ---------------------------------------------------------------- the starter's run
\* The starter satellite's position and velocity under one BodyUpdate a frame
\* at 60 frames a second.  Its trail and the energy counter, which do not feed
\* back into its motion, are left out.
MaxOrbitTicks == 9200

OrbitTick ==
    /\ orb.alive
    /\ orb.n < MaxOrbitTicks
    /\ LET u == BodyUpdate(orb.pos, orb.vel, ClampDt(FALLBACK_DT))
       IN  orb' = [pos |-> u.pos, vel |-> u.vel, alive |-> ~u.collided,
                   n |-> orb.n + 1]
    /\ UNCHANGED <<progVars, pr, tb>>

InitOrbit ==
    /\ InitProgram
    /\ orb = [pos |-> StarterPos, vel |-> StarterVel, alive |-> TRUE, n |-> 0]
    /\ pr = PrIdle /\ tb = TbIdle

SpecOrbit == InitOrbit /\ [][OrbitTick]_vars

\* ---------------------------------------------------------------- one trail
\* One trail buffer under repeated TrailAppend.  The k-th point appended is
\* Pt(k), so that every point is told from every other; a run starts from the
\* buffer as k appends leave it, k up to MAX_TRAIL (no eviction yet).
MaxAppends == 40

Pt(k) == <<k, 0 - k>>

TrailStarts == {0, MAX_TRAIL - 2, MAX_TRAIL}

TrailPush ==
    /\ tb.pushed < MaxAppends
    /\ tb' = [count |-> tb.count + 1, pushed |-> tb.pushed + 1,
              trail |-> TrailAppend(tb.trail, Pt(tb.count + 1))]
    /\ UNCHANGED <<progVars, pr, orb>>

InitTrail ==
    /\ InitProgram
    /\ \E n \in TrailStarts :
          tb = [count |-> n, pushed |-> 0, trail |-> [k \in 1..n |-> Pt(k)]]
    /\ pr = PrIdle /\ orb = OrbIdle

SpecTrail == InitTrail /\ [][TrailPush]_vars

\* ================================================================ properties
\* distance(position, center), as the program measures it
Dist(pos) == length(VSub(EARTH_CENTER, pos))

\* How often the last frame's loop did step op to body id
Count(id, op) == Len(SelectSeq(log, LAMBDA e : e = <<id, op>>))

Ids(s) == [i \in 1..Len(s) |-> s[i].id]

\* The last frame's integrated bodies, in the order the loop updated them
Integrated == SelectSeq(log, LAMBDA e : e[2] = "integrate")

C2_PurgedNextTick ==
    /\ \A i \in 1..Len(sats) : sats[i].id \notin gone
    /\ last = "tick" =>
        /\ \A j \in 1..Len(before) : ~before[j].alive =>
              /\ \A i \in 1..Len(sats) : sats[i].id # before[j].id
              /\ before[j].id \in gone
              /\ SelectSeq(log, LAMBDA e : e[1] = before[j].id)
                    = <<(<<before[j].id, "erase">>)>>
        /\ \A i \in 1..Len(sats) : ~sats[i].alive =>
              /\ \E j \in 1..Len(before) : before[j].id = sats[i].id /\ before[j].alive
              /\ Count(sats[i].id, "flag") = 1
        /\ \A j \in 1..Len(before) : Count(before[j].id, "flag") <= 1

\* A tick found a flagged body in the collection.
C2_Witness ==
    /\ last = "tick"
    /\ \E j \in 1..Len(before) : ~before[j].alive
    /\ \E i \in 1..Len(sats) : sats[i].alive

\* ---------------------------------------------------------------- C3
\* C3 as stated: every point predictOrbit has emitted is farther than
\* EARTH_RADIUS from the centre.
C3_GhostOutside ==
    \A k \in 1..Len(pr.ghost) : Dist(pr.ghost[k]) > RadiusLen

\* ---------------------------------------------------------------- C4
\* C4 as stated: an iteration of predictOrbit from (p, v) with dt agrees with
\* the live update of a body at (p, v) with dt on whether it collided and, if
\* it did not, on the new position and velocity.
C4_PredictSameAsLive ==
    pr.ran =>
        LET live == BodyUpdate(pr.fromP, pr.fromV, pr.dt)
        IN  /\ live.collided = pr.hit
            /\ ~pr.hit => (live.pos = pr.p /\ live.vel = pr.v)

\* ---------------------------------------------------------------- C5
\* C5: the trail holds at most MAX_TRAIL points, and they are the most recent
\* Len(trail) points appended, oldest first.
C5_TrailIsRecentSuffix ==
    /\ Len(tb.trail) <= MAX_TRAIL
    /\ tb.trail = [k \in 1..Len(tb.trail) |-> Pt(tb.count - Len(tb.trail) + k)]

\* The buffer has evicted twice.
C5_Witness ==
    /\ tb.count > MAX_TRAIL + TrailBlock
    /\ Len(tb.trail) < MAX_TRAIL

\* ---------------------------------------------------------------- C6
\* epsilon = 1e-3 s
EpsDt == TimeScale \div MIN_DIST_INV

\* C6 as stated: the tick's timestep lies in [epsilon, MAX_DT], and a zero or
\* negative clock delta gives the 1/60 s fallback.
C6_DtInEpsToMax ==
    last = "tick" =>
        /\ EpsDt <= dt /\ dt <= MAX_DT
        /\ rawDt <= 0 => dt = FALLBACK_DT

\* C6 amended: the tick's timestep lies in (0, MAX_DT]: a zero or negative
\* clock delta gives the 1/60 s fallback, a positive delta up to MAX_DT is
\* used as it is (however small), a larger one gives MAX_DT; the bodies the
\* tick integrates are moved by that timestep.
C6_DtPositiveToMax ==
    last = "tick" =>
        /\ 0 < dt /\ dt <= MAX_DT
        /\ rawDt <= 0 => dt = FALLBACK_DT
        /\ (0 < rawDt /\ rawDt <= MAX_DT) => dt = rawDt
        /\ rawDt > MAX_DT => dt = MAX_DT
        /\ \A i \in 1..Len(sats) : Count(sats[i].id, "integrate") = 1 =>
              \E j \in 1..Len(before) :
                  /\ before[j].id = sats[i].id
                  /\ sats[i].pos = BodyUpdate(before[j].pos, before[j].vel,
                                              ClampDt(rawDt)).pos

\* A tick has integrated a body with a positive timestep below epsilon.
C6_Witness ==
    /\ last = "tick"
    /\ 0 < rawDt /\ rawDt < EpsDt /\ dt = rawDt
    /\ Len(Integrated) > 0

\* ---------------------------------------------------------------- C7
\* C7: a click at distance <= EARTH_RADIUS + 5 from the centre leaves the
\* collection as it was; a click farther out appends exactly one body, alive,
\* with an empty trail, at the clicked position.
C7_SpawnRule ==
    last = "click" =>
        IF Dist(clickPos) <= SpawnLen
        THEN sats = before
        ELSE /\ Len(sats) = Len(before) + 1
             /\ SubSeq(sats, 1, Len(before)) = before
             /\ sats[Len(sats)].alive
             /\ sats[Len(sats)].trail = <<>>
             /\ sats[Len(sats)].pos = clickPos

\* A click just past the threshold has added a body next to bodies that have
\* already moved.
C7_Witness ==
    /\ last = "click"
    /\ ticks > 0
    /\ Dist(clickPos) = SpawnLen + 1
    /\ Len(sats) = Len(before) + 1

\* ---------------------------------------------------------------- C8
\* C8 as stated: the energy counter advances by one in every tick, and a
\* sample is only ever printed for one designated body (the first).
C8_CounterOncePerTick ==
    last = "tick" =>
        /\ energyCounter = beforeCounter + 1
        /\ \A k \in 1..Len(sampled) : sampled[k] = 1

\* C8 amended: the energy counter advances once for every body the tick
\* integrates (not at all in a tick that integrates none); a sample is printed
\* for whichever body's update takes the counter to a multiple of 200; the
\* bodies move as BodyUpdate moves them, sampled or not.
C8_CounterOncePerUpdate ==
    last = "tick" =>
        /\ energyCounter = beforeCounter + Len(Integrated)
        /\ sampled = SelectSeq([k \in 1..Len(Integrated) |->
                                   IF (beforeCounter + k) % SampleEvery = 0
                                   THEN Integrated[k][1] ELSE 0],
                               LAMBDA x : x # 0)
        /\ \A i \in 1..Len(sats) : Count(sats[i].id, "integrate") = 1 =>
              \E j \in 1..Len(before) :
                  /\ before[j].id = sats[i].id
                  /\ sats[i].pos = BodyUpdate(before[j].pos, before[j].vel, dt).pos
                  /\ sats[i].vel = BodyUpdate(before[j].pos, before[j].vel, dt).vel

\* A tick integrated two bodies and printed the sample of the second one.
C8_Witness ==
    /\ last = "tick"
    /\ energyCounter = beforeCounter + 2
    /\ sampled = <<2>>

\* ---------------------------------------------------------------- C9
\* C9 as stated: the starter stays alive with its distance to the centre in
\* [EARTH_RADIUS, 1.5 * r0] on every tick, r0 its first distance.
C9_StarterStaysBounded ==
    /\ orb.alive
    /\ RadiusLen <= Dist(orb.pos)
    /\ 2 * Dist(orb.pos) <= 3 * Dist(StarterPos)

\* ---------------------------------------------------------------- C10
\* C10: the loop tests each body that was alive at the start of the tick
\* exactly once, integrates it and extends its trail at most once, and erases
\* none of them; each flagged body is erased once and nothing else; the
\* survivors keep their order.
C10_EachBodyOnce ==
    last = "tick" =>
        /\ \A j \in 1..Len(before) :
              IF before[j].alive
              THEN /\ Count(before[j].id, "test") = 1
                   /\ Count(before[j].id, "integrate") <= 1
                   /\ Count(before[j].id, "trail") <= 1
                   /\ Count(before[j].id, "erase") = 0
              ELSE /\ Count(before[j].id, "test") = 0
                   /\ Count(before[j].id, "integrate") = 0
                   /\ Count(before[j].id, "trail") = 0
                   /\ Count(before[j].id, "erase") = 1
        /\ \A k \in 1..Len(log) : \E j \in 1..Len(before) : before[j].id = log[k][1]
        /\ Ids(sats) = Ids(SelectSeq(before, LAMBDA b : b.alive))

\* A tick found a flagged body in front of a live one, and a live one in
\* front of a flagged one.
C10_Witness ==
    /\ last = "tick"
    /\ \E j, k \in 1..Len(before) : j < k /\ ~before[j].alive /\ before[k].alive
    /\ \E j, k \in 1..Len(before) : j < k /\ before[j].alive /\ ~before[k].alive

====
